---- MODULE Spec2Model ----
(***************************************************************************)
(* Model of src/unstable.rs: the little-endian read/write extension traits *)
(* (blocking and tokio variants) and the FileOptionsExt forwarding shim.   *)
(*                                                                         *)
(* An unsigned integer of width W is held as its W/16 base-65536 digits    *)
(* ("limbs"), least significant limb first, because the model checker's    *)
(* integers are narrower than u32/u64/u128.  A byte channel is a FIFO of   *)
(* bytes of bounded capacity: writes append at the back, reads consume     *)
(* from the front.  What one Write::write / Read::read call of the channel *)
(* is willing to do is drawn from a bounded script of step outcomes.       *)
(***************************************************************************)
EXTENDS Integers, Sequences, FiniteSets, TLC

VARIABLES chan, inflight, clean, last, fut, opts, call

vars == <<chan, inflight, clean, last, fut, opts, call>>

\* ------------------------------------------------------------------ bounds

\* Capacity of the byte channel, in bytes.
Cap == 16

\* Longest script of misbehaviours (short transfers, interruptions, faults)
\* of a blocking channel within one operation; afterwards the channel
\* transfers all it is asked for.
MaxFaults == 1

\* ------------------------------------------------------------------ integers

Min(a, b) == IF a < b THEN a ELSE b

WriteWidths == {16, 32, 64, 128}
ReadWidths == {16, 32, 64}

\* size_of::<uW>() : the length of [u8; W/8]
NBytes(W) == W \div 8
NLimbs(W) == W \div 16

\* Sample values per width, least significant limb first:
\* 0x0102, 0xFFFF, 0x8000 / 0x01020304, 0xFFFFFFFF, 0x00000001 /
\* 0x0102030405060708, u64::MAX / u128::MAX, 0x0102..0F10
Values(W) ==
    CASE W = 16 -> {<<258>>, <<65535>>, <<32768>>}
      [] W = 32 -> {<<772, 258>>, <<65535, 65535>>, <<1, 0>>}
      [] W = 64 -> {<<1800, 1286, 772, 258>>, <<65535, 65535, 65535, 65535>>}
      [] W = 128 -> {[k \in 1..8 |-> 65535],
                     <<3856, 3342, 2828, 2314, 1800, 1286, 772, 258>>}

Filler(W) ==
    CASE W = 16 -> <<258>>
      [] W = 32 -> <<772, 258>>
      [] W = 64 -> <<1800, 1286, 772, 258>>
      [] W = 128 -> [k \in 1..8 |-> 65535]

NoValue == <<>>

\* Mutant: the bytes in big-endian order (to_be_bytes).
to_be_bytes(W, v) ==
    [i \in 1..NBytes(W) |->
        (v[((NBytes(W) - i) \div 2) + 1]
            \div (IF (NBytes(W) - i) % 2 = 0 THEN 1 ELSE 256)) % 256]

\* uW::to_le_bytes: byte i (from 0) of the array is bits 8i..8i+7 of the value.
to_le_bytes(W, v) ==
    [i \in 1..NBytes(W) |->
        (v[((i - 1) \div 2) + 1] \div (IF (i - 1) % 2 = 0 THEN 1 ELSE 256)) % 256]

\* Mutant: the bytes read in big-endian order (from_be_bytes).
from_be_bytes(W, out) ==
    [k \in 1..NLimbs(W) |->
        out[NBytes(W) - 2 * k + 2] + 256 * out[NBytes(W) - 2 * k + 1]]

\* uW::from_le_bytes: the value whose byte i (from 0) is out[i].
from_le_bytes(W, out) ==
    [k \in 1..NLimbs(W) |-> out[2 * k - 1] + 256 * out[2 * k]]

\* ------------------------------------------------------------------ channel

\* io::ErrorKind values the channel itself may fail with.
Faults == {"BrokenPipe", "TimedOut"}

\* One io::Result<usize> of the channel: Ok(n) or Err(e).
Ok(n) == [ok |-> TRUE, n |-> n, e |-> "-"]
Err(e) == [ok |-> FALSE, n |-> 0, e |-> e]

RECURSIVE SeqsUpTo(_, _)
SeqsUpTo(S, n) ==
    IF n = 0 THEN {<<>>}
    ELSE LET shorter == SeqsUpTo(S, n - 1)
         IN shorter \cup {Append(s, x) : s \in {t \in shorter : Len(t) = n - 1}, x \in S}

\* What the sink is willing to do in one Write::write call.
WriteWills == {Ok(0), Ok(1), Err("Interrupted")} \cup {Err(f) : f \in Faults}
\* What the source is willing to do in one Read::read call (a FIFO reports
\* end of input, Ok(0), only when it is empty).
ReadWills == {Ok(1), Err("Interrupted")} \cup {Err(f) : f \in Faults}

WriteScripts == SeqsUpTo(WriteWills, MaxFaults)
ReadScripts == SeqsUpTo(ReadWills, MaxFaults)

\* Write::write(buf) on the channel ch: accepts a prefix of buf.
ChanWrite(ch, buf, w) ==
    IF w.ok THEN Ok(Min(w.n, Min(Len(buf), Cap - Len(ch)))) ELSE w

\* Read::read(buf) on the channel ch with `want` bytes of buffer left.
ChanRead(ch, want, w) ==
    IF w.ok THEN Ok(Min(w.n, Min(want, Len(ch)))) ELSE w

Step(offered, r) == [offered |-> offered, ok |-> r.ok, n |-> r.n, e |-> r.e]

\* Mutant: one Write::write call in place of write_all; whatever it accepts
\* counts as success.
write_once(ch, buf, script, out, trace) ==
    LET w == IF script = <<>> THEN Ok(Len(buf)) ELSE Head(script)
        r == ChanWrite(ch, buf, w)
        t == Append(trace, Step(Len(buf), r))
    IN IF r.ok
       THEN [res |-> "Ok", chan |-> ch \o SubSeq(buf, 1, r.n),
             io |-> out \o SubSeq(buf, 1, r.n), trace |-> t]
       ELSE [res |-> r.e, chan |-> ch, io |-> out, trace |-> t]

\* Mutant: a write_all that fails on a short write instead of going on.
RECURSIVE write_all_strict(_, _, _, _, _)
write_all_strict(ch, buf, script, out, trace) ==
    IF buf = <<>> THEN [res |-> "Ok", chan |-> ch, io |-> out, trace |-> trace]
    ELSE LET w == IF script = <<>> THEN Ok(Len(buf)) ELSE Head(script)
             rest == IF script = <<>> THEN <<>> ELSE Tail(script)
             r == ChanWrite(ch, buf, w)
             t == Append(trace, Step(Len(buf), r))
         IN IF r.ok
            THEN IF r.n < Len(buf)
                 THEN [res |-> "WriteZero", chan |-> ch \o SubSeq(buf, 1, r.n),
                       io |-> out \o SubSeq(buf, 1, r.n), trace |-> t]
                 ELSE [res |-> "Ok", chan |-> ch \o buf, io |-> out \o buf,
                       trace |-> t]
            ELSE IF r.e = "Interrupted"
                 THEN write_all_strict(ch, buf, rest, out, t)
                 ELSE [res |-> r.e, chan |-> ch, io |-> out, trace |-> t]

\* Write::write_all (std): call write until the buffer is empty; Ok(0) is
\* ErrorKind::WriteZero, Interrupted is retried, any other error returned.
RECURSIVE write_all(_, _, _, _, _)
write_all(ch, buf, script, out, trace) ==
    IF buf = <<>> THEN [res |-> "Ok", chan |-> ch, io |-> out, trace |-> trace]
    ELSE LET w == IF script = <<>> THEN Ok(Len(buf)) ELSE Head(script)
             rest == IF script = <<>> THEN <<>> ELSE Tail(script)
             r == ChanWrite(ch, buf, w)
             t == Append(trace, Step(Len(buf), r))
         IN IF r.ok
            THEN IF r.n = 0
                 THEN [res |-> "WriteZero", chan |-> ch, io |-> out, trace |-> t]
                 ELSE write_all(ch \o SubSeq(buf, 1, r.n),
                                SubSeq(buf, r.n + 1, Len(buf)), rest,
                                out \o SubSeq(buf, 1, r.n), t)
            ELSE IF r.e = "Interrupted"
                 THEN write_all(ch, buf, rest, out, t)
                 ELSE [res |-> r.e, chan |-> ch, io |-> out, trace |-> t]

\* Read::read_exact (std): call read until the buffer is full; Ok(0) before
\* that is ErrorKind::UnexpectedEof, Interrupted is retried, any other error
\* returned.  `got` is the filled part of the buffer.
RECURSIVE read_exact(_, _, _, _, _)
read_exact(ch, want, script, got, trace) ==
    IF want = 0 THEN [res |-> "Ok", chan |-> ch, io |-> got, trace |-> trace]
    ELSE LET w == IF script = <<>> THEN Ok(want) ELSE Head(script)
             rest == IF script = <<>> THEN <<>> ELSE Tail(script)
             r == ChanRead(ch, want, w)
             t == Append(trace, Step(want, r))
         IN IF r.ok
            THEN IF r.n = 0
                 THEN [res |-> "UnexpectedEof", chan |-> ch, io |-> got, trace |-> t]
                 ELSE read_exact(SubSeq(ch, r.n + 1, Len(ch)), want - r.n, rest,
                                 got \o SubSeq(ch, 1, r.n), t)
            ELSE IF r.e = "Interrupted"
                 THEN read_exact(ch, want, rest, got, t)
                 ELSE [res |-> r.e, chan |-> ch, io |-> got, trace |-> t]

\* ------------------------------------------------------------------ blocking

\* Mutant: the channel's error replaced by one of the layer's own.
WriteLe_other(ch, W, input, script) ==
    LET r == write_all(ch, to_le_bytes(W, input), script, <<>>, <<>>)
    IN [kind |-> "write", W |-> W, arg |-> input,
        res |-> IF r.res = "Ok" THEN "Ok" ELSE "Other", val |-> NoValue,
        io |-> r.io, trace |-> r.trace, chan |-> r.chan, calls |-> 1]

\* LittleEndianWriteExt::write_uW_le(input): self.write_all(&input.to_le_bytes())
WriteLe(ch, W, input, script) ==
    LET r == write_all(ch, to_le_bytes(W, input), script, <<>>, <<>>)
    IN [kind |-> "write", W |-> W, arg |-> input, res |-> r.res, val |-> NoValue,
        io |-> r.io, trace |-> r.trace, chan |-> r.chan, calls |-> 1]

\* Mutant: a buffer one byte longer than the integer.
ReadLe_wide(ch, W, script) ==
    LET r == read_exact(ch, NBytes(W) + 1, script, <<>>, <<>>)
    IN [kind |-> "read", W |-> W, arg |-> NoValue, res |-> r.res,
        val |-> IF r.res = "Ok" THEN from_le_bytes(W, r.io) ELSE NoValue,
        io |-> r.io, trace |-> r.trace, chan |-> r.chan, calls |-> 1]

\* Mutant: the result of read_exact dropped, the buffer decoded as it stands.
ReadLe_unchecked(ch, W, script) ==
    LET r == read_exact(ch, NBytes(W), script, <<>>, <<>>)
        out == [i \in 1..NBytes(W) |-> IF i <= Len(r.io) THEN r.io[i] ELSE 0]
    IN [kind |-> "read", W |-> W, arg |-> NoValue, res |-> "Ok",
        val |-> from_le_bytes(W, out),
        io |-> r.io, trace |-> r.trace, chan |-> r.chan, calls |-> 1]

\* LittleEndianReadExt::read_uW_le(): read_exact(&mut out)?; Ok(from_le_bytes(out))
ReadLe(ch, W, script) ==
    LET r == read_exact(ch, NBytes(W), script, <<>>, <<>>)
    IN [kind |-> "read", W |-> W, arg |-> NoValue, res |-> r.res,
        val |-> IF r.res = "Ok" THEN from_le_bytes(W, r.io) ELSE NoValue,
        io |-> r.io, trace |-> r.trace, chan |-> r.chan, calls |-> 1]

\* The record of a completed operation, as the caller observes it.
NoExp == [W |-> 0, v |-> NoValue]
Completed(r, mode, exp, depth) ==
    [mode |-> mode, kind |-> r.kind, W |-> r.W, arg |-> r.arg, res |-> r.res,
     val |-> r.val, io |-> r.io, trace |-> r.trace, calls |-> r.calls,
     exp |-> exp, depth |-> depth]

NoOp ==
    [mode |-> "-", kind |-> "-", W |-> 0, arg |-> NoValue, res |-> "-",
     val |-> NoValue, io |-> <<>>, trace |-> <<>>, calls |-> 0, exp |-> NoExp,
     depth |-> 0]

\* History of the writes whose bytes are still in the channel: while `clean`,
\* inflight lists the (W, v) of the successful writes not yet read back.
Expected == IF clean /\ inflight # <<>> THEN Head(inflight) ELSE NoExp
Depth == IF clean THEN Len(inflight) ELSE 0

Finish(r, mode) ==
    /\ chan' = r.chan
    /\ last' = Completed(r, mode, Expected, Depth)
    /\ IF r.chan = chan /\ r.res # "Ok"
       THEN UNCHANGED <<inflight, clean>>
       ELSE IF r.chan = <<>>
       THEN inflight' = <<>> /\ clean' = TRUE
       ELSE IF r.kind = "write"
       THEN /\ clean' = (clean /\ r.res = "Ok")
            /\ inflight' = IF clean' THEN Append(inflight, [W |-> r.W, v |-> r.arg])
                           ELSE <<>>
       ELSE /\ clean' = (clean /\ r.res = "Ok" /\ Expected.W = r.W)
            /\ inflight' = IF clean' THEN Tail(inflight) ELSE <<>>

\* The caller issues the next operation only after the previous one returned
\* Ok: a failed operation ends the use of the channel (the layer promises
\* nothing about the channel after a failure).
CanCall == last.res \in {"-", "Ok"} /\ fut.pc = "none"

\* The values a caller writes: every sample into an empty channel, one fixed
\* sample behind bytes that are already queued (keeps the run space finite).
Inputs(W) == IF chan = <<>> THEN Values(W) ELSE {Filler(W)}

WriteOp(W) ==
    /\ CanCall
    /\ \E input \in Inputs(W), script \in WriteScripts :
          Finish(WriteLe(chan, W, input, script), "blocking")
    /\ UNCHANGED <<fut, opts, call>>

ReadOp(W) ==
    /\ CanCall
    /\ \E script \in ReadScripts : Finish(ReadLe(chan, W, script), "blocking")
    /\ UNCHANGED <<fut, opts, call>>

write_u16_le == WriteOp(16)
write_u32_le == WriteOp(32)
write_u64_le == WriteOp(64)
write_u128_le == WriteOp(128)
read_u16_le == ReadOp(16)
read_u32_le == ReadOp(32)
read_u64_le == ReadOp(64)

\* ------------------------------------------------------------------ suspending

\* Longest script of step outcomes of a suspending channel within one
\* operation (a short transfer followed by Poll::Pending needs two).
MaxSteps == 2

\* Poll::Pending of poll_write / poll_read.
Pending == [ok |-> FALSE, n |-> 0, e |-> "Pending"]

AsyncWriteWills == {Ok(0), Ok(1), Pending} \cup {Err(f) : f \in Faults}
AsyncReadWills == {Ok(1), Pending} \cup {Err(f) : f \in Faults}
AsyncWriteScripts == SeqsUpTo(AsyncWriteWills, MaxSteps)
AsyncReadScripts == SeqsUpTo(AsyncReadWills, MaxSteps)

Polled(st, res, ch, buf, script, io, trace) ==
    [st |-> st, res |-> res, chan |-> ch, buf |-> buf, script |-> script,
     io |-> io, trace |-> trace]

\* One poll of tokio's WriteAll future (AsyncWriteExt::write_all): poll_write
\* until the buffer is empty; Pending suspends, an error is returned as it
\* is, Ok(0) is ErrorKind::WriteZero.
RECURSIVE poll_write_all(_, _, _, _, _)
poll_write_all(ch, buf, script, out, trace) ==
    IF buf = <<>> THEN Polled("Ready", "Ok", ch, buf, script, out, trace)
    ELSE LET w == IF script = <<>> THEN Ok(Len(buf)) ELSE Head(script)
             rest == IF script = <<>> THEN <<>> ELSE Tail(script)
             r == ChanWrite(ch, buf, w)
             t == Append(trace, Step(Len(buf), r))
         IN IF r = Pending THEN Polled("Pending", "-", ch, buf, rest, out, t)
            ELSE IF ~r.ok THEN Polled("Ready", r.e, ch, buf, rest, out, t)
            ELSE IF r.n = 0 THEN Polled("Ready", "WriteZero", ch, buf, rest, out, t)
            ELSE poll_write_all(ch \o SubSeq(buf, 1, r.n),
                                SubSeq(buf, r.n + 1, Len(buf)), rest,
                                out \o SubSeq(buf, 1, r.n), t)

\* One poll of tokio's ReadExact future (AsyncReadExt::read_exact): poll_read
\* until the buffer is full; Pending suspends, an error is returned as it is,
\* a read that adds nothing is ErrorKind::UnexpectedEof.  `buf` is the filled
\* part of the buffer, want the length of the whole.
RECURSIVE poll_read_exact(_, _, _, _, _)
poll_read_exact(ch, want, script, got, trace) ==
    IF want = Len(got) THEN Polled("Ready", "Ok", ch, got, script, got, trace)
    ELSE LET w == IF script = <<>> THEN Ok(want) ELSE Head(script)
             rest == IF script = <<>> THEN <<>> ELSE Tail(script)
             r == ChanRead(ch, want - Len(got), w)
             t == Append(trace, Step(want - Len(got), r))
         IN IF r = Pending THEN Polled("Pending", "-", ch, got, rest, got, t)
            ELSE IF ~r.ok THEN Polled("Ready", r.e, ch, got, rest, got, t)
            ELSE IF r.n = 0
            THEN Polled("Ready", "UnexpectedEof", ch, got, rest, got, t)
            ELSE poll_read_exact(SubSeq(ch, r.n + 1, Len(ch)), want, rest,
                                 got \o SubSeq(ch, 1, r.n), t)

\* Mutant: the suspending read decoding big-endian.
AsyncDecode_be(W, out) == from_be_bytes(W, out)

\* Ok(uW::from_le_bytes(out)) of the suspending read.
AsyncDecode(W, out) == from_le_bytes(W, out)

\* The future a suspending operation returns.  pc: "none" (no future, or the
\* last one completed), "created" (returned, never polled), "pending"
\* (suspended at the await).  calls counts the write_all / read_exact calls
\* the async block has made, budget the channel misbehaviours still allowed
\* within this operation; pre remembers the channel at creation.
NoFut ==
    [pc |-> "none", kind |-> "-", W |-> 0, arg |-> NoValue, buf |-> <<>>,
     io |-> <<>>, trace |-> <<>>, calls |-> 0, budget |-> 0, pre |-> <<>>]

\* AsyncLittleEndianWriteExt::write_uW_le / AsyncLittleEndianReadExt::read_uW_le:
\* return the async block; nothing runs before the first poll.  The result of
\* the previous operation has been taken by the caller.
NewFuture(kind, W, input) ==
    [pc |-> "created", kind |-> kind, W |-> W, arg |-> input, buf |-> <<>>,
     io |-> <<>>, trace |-> <<>>, calls |-> 0, budget |-> MaxSteps, pre |-> chan]

AsyncWriteOp(W) ==
    /\ CanCall
    /\ \E input \in Inputs(W) : fut' = NewFuture("write", W, input)
    /\ last' = NoOp
    /\ UNCHANGED <<chan, inflight, clean, opts, call>>

AsyncReadOp(W) ==
    /\ CanCall
    /\ fut' = NewFuture("read", W, NoValue)
    /\ last' = NoOp
    /\ UNCHANGED <<chan, inflight, clean, opts, call>>

async_write_u16_le == AsyncWriteOp(16)
async_write_u32_le == AsyncWriteOp(32)
async_write_u64_le == AsyncWriteOp(64)
async_write_u128_le == AsyncWriteOp(128)
async_read_u16_le == AsyncReadOp(16)
async_read_u32_le == AsyncReadOp(32)
async_read_u64_le == AsyncReadOp(64)

\* Mutant: the call made anew at every poll.
Awaited_again(f) == f.calls + 1

\* The number of write_all / read_exact calls made once the async block has
\* been polled: the first poll runs the block up to its single .await and so
\* makes the call; a later poll resumes that same call.
Awaited(f) == IF f.pc = "created" THEN f.calls + 1 ELSE f.calls

\* One poll of the async block by the scheduler; script is what the channel
\* does during this poll (a poll that suspends ends with the script's Pending).
Poll ==
    /\ fut.pc \in {"created", "pending"}
    /\ \E script \in (IF fut.kind = "write" THEN AsyncWriteScripts
                      ELSE AsyncReadScripts) :
        /\ Len(script) <= fut.budget
        /\ LET buf == IF fut.pc = "created" /\ fut.kind = "write"
                      THEN to_le_bytes(fut.W, fut.arg) ELSE fut.buf
               p == IF fut.kind = "write"
                    THEN poll_write_all(chan, buf, script, fut.io, fut.trace)
                    ELSE poll_read_exact(chan, NBytes(fut.W), script, fut.io,
                                         fut.trace)
           IN IF p.st = "Pending"
              THEN /\ p.script = <<>>
                   /\ fut' = [fut EXCEPT !.pc = "pending", !.buf = p.buf,
                                         !.io = p.io, !.trace = p.trace,
                                         !.calls = Awaited(fut),
                                         !.budget = fut.budget - Len(script)]
                   /\ chan' = p.chan
                   /\ UNCHANGED <<inflight, clean, last>>
              ELSE /\ fut' = NoFut
                   /\ Finish([kind |-> fut.kind, W |-> fut.W, arg |-> fut.arg,
                              res |-> p.res,
                              val |-> IF fut.kind = "read" /\ p.res = "Ok"
                                      THEN AsyncDecode(fut.W, p.io) ELSE NoValue,
                              io |-> p.io, trace |-> p.trace, chan |-> p.chan,
                              calls |-> Awaited(fut)],
                             "suspending")
    /\ UNCHANGED <<opts, call>>

\* ------------------------------------------------------------------ options

\* Longest password, in characters.
MaxPwLen == 2

\* Characters of a password given as text: 's' and U+00E9.
PwChars == {115, 233}
Passwords == SeqsUpTo(PwChars, MaxPwLen)

\* <str as AsRef<[u8]>>::as_ref: the UTF-8 bytes of the text.
RECURSIVE as_ref(_)
as_ref(password) ==
    IF password = <<>> THEN <<>>
    ELSE LET c == Head(password)
         IN (IF c < 128 THEN <<c>> ELSE <<192 + (c \div 64), 128 + (c % 64)>>)
            \o as_ref(Tail(password))

NoEncryption == [scheme |-> "None", password |-> <<>>]

\* FileOptions::with_deprecated_encryption(self, password: &[u8]), the
\* builder's own method: sets the ZipCrypto option, keeps the rest.
FileOptions_with_deprecated_encryption(self, bytes) ==
    [self EXCEPT !.encrypt_with = [scheme |-> "ZipCrypto", password |-> bytes]]

\* Mutant: an empty password rejected by the shim, the options left as given.
with_deprecated_encryption_checked(self, password) ==
    IF as_ref(password) = <<>> THEN [ret |-> self, delegated |-> <<>>]
    ELSE [ret |-> FileOptions_with_deprecated_encryption(self, as_ref(password)),
          delegated |-> <<as_ref(password)>>]

\* <FileOptions as FileOptionsExt>::with_deprecated_encryption(self, password):
\* self.with_deprecated_encryption(password.as_ref()), which resolves to the
\* builder's inherent method.  Gives the returned options and the arguments
\* of each delegation made.
FileOptionsExt_with_deprecated_encryption(self, password) ==
    [ret |-> FileOptions_with_deprecated_encryption(self, as_ref(password)),
     delegated |-> <<as_ref(password)>>]

NoOpts == [compression_method |-> "Stored", large_file |-> FALSE,
           encrypt_with |-> NoEncryption]
NoCall == [n |-> 0, self |-> NoOpts, password |-> <<>>, delegated |-> <<>>]

with_deprecated_encryption ==
    /\ \E password \in Passwords :
          LET r == FileOptionsExt_with_deprecated_encryption(opts, password)
          IN /\ opts' = r.ret
             /\ call' = [n |-> 1, self |-> opts, password |-> password,
                         delegated |-> r.delegated]
    /\ UNCHANGED <<chan, inflight, clean, last, fut>>

\* ------------------------------------------------------------------ specifications

\* Channels the caller may hand in: empty, or holding three bytes already.
Preloads == {<<>>, <<4, 3, 2>>}

Init ==
    /\ chan \in Preloads
    /\ inflight = <<>>
    /\ clean = (chan = <<>>)
    /\ last = NoOp
    /\ fut = NoFut
    /\ opts = NoOpts
    /\ call = NoCall

Next ==
    \/ write_u16_le
    \/ write_u32_le
    \/ write_u64_le
    \/ write_u128_le
    \/ read_u16_le
    \/ read_u32_le
    \/ read_u64_le

Spec == Init /\ [][Next]_vars

NextAsync ==
    \/ async_write_u16_le
    \/ async_write_u32_le
    \/ async_write_u64_le
    \/ async_write_u128_le
    \/ async_read_u16_le
    \/ async_read_u32_le
    \/ async_read_u64_le
    \/ Poll

SpecAsync == Init /\ [][NextAsync]_vars

InitOpts ==
    /\ chan = <<>>
    /\ inflight = <<>>
    /\ clean = TRUE
    /\ last = NoOp
    /\ fut = NoFut
    /\ opts \in [compression_method : {"Stored", "Deflated"}, large_file : BOOLEAN,
                 encrypt_with : {NoEncryption}]
    /\ call = NoCall

NextOpts == with_deprecated_encryption

SpecOpts == InitOpts /\ [][NextOpts]_vars

\* ------------------------------------------------------------------ reference arithmetic

\* v >> 8 on the limbs of v, limbs k..Len(v) of the result.
RECURSIVE Shr8From(_, _)
Shr8From(v, k) ==
    IF k > Len(v) THEN <<>>
    ELSE <<(v[k] \div 256) + 256 * (IF k < Len(v) THEN v[k + 1] % 256 ELSE 0)>>
         \o Shr8From(v, k + 1)

RECURSIVE ShrBytes(_, _)
ShrBytes(v, i) == IF i = 0 THEN v ELSE ShrBytes(Shr8From(v, 1), i - 1)

\* (v >> 8i) mod 256
ByteAt(v, i) == ShrBytes(v, i)[1] % 256

\* (v << 8) + b on the limbs of v, modulo the width of v; limbs k..Len(v).
RECURSIVE Shl8AddFrom(_, _, _)
Shl8AddFrom(v, b, k) ==
    IF k > Len(v) THEN <<>>
    ELSE <<(v[k] % 256) * 256 + (IF k = 1 THEN b ELSE v[k - 1] \div 256)>>
         \o Shl8AddFrom(v, b, k + 1)

RECURSIVE Zeros(_)
Zeros(n) == IF n = 0 THEN <<>> ELSE <<0>> \o Zeros(n - 1)

\* The little-endian value of bytes i..Len(bytes): sum of bytes[j] * 256^(j-i).
RECURSIVE LeValueFrom(_, _, _)
LeValueFrom(W, bytes, i) ==
    IF i > Len(bytes) THEN Zeros(NLimbs(W))
    ELSE Shl8AddFrom(LeValueFrom(W, bytes, i + 1), bytes[i], 1)

LeValue(W, bytes) == LeValueFrom(W, bytes, 1)

\* The encodings of a queue of (W, v), concatenated in order.
RECURSIVE Encoded(_)
Encoded(q) ==
    IF q = <<>> THEN <<>> ELSE to_le_bytes(Head(q).W, Head(q).v) \o Encoded(Tail(q))

IsFault(s) == ~s.ok /\ s.e \in Faults
IsZero(s) == s.ok /\ s.n = 0
IsShort(s) == s.ok /\ 0 < s.n /\ s.n < s.offered
IsPending(s) == ~s.ok /\ s.e = "Pending"
Refused(t) == \E i \in 1..Len(t) : IsFault(t[i]) \/ IsZero(t[i])
NoFault(t) == \A i \in 1..Len(t) : ~IsFault(t[i])

\* ------------------------------------------------------------------ claims

\* C1: a read_uW_le that finds in the channel exactly the bytes of one
\* successful write_uW_le(v) of the same width, made on the empty channel,
\* returns Ok(v) (the channel raising no fault of its own).
C1_RoundTrip ==
    (last.kind = "read" /\ last.depth = 1 /\ last.exp.W = last.W
        /\ NoFault(last.trace))
    => (last.res = "Ok" /\ last.val = last.exp.v)

C1_Witness ==
    /\ last.kind = "read" /\ last.depth = 1 /\ last.W = 64 /\ last.exp.W = 64
    /\ last.res = "Ok"
    /\ last.val = <<65535, 65535, 65535, 65535>>

\* C2: a successful write_uW_le(v), W in {16, 32, 64, 128}, appends exactly W/8
\* bytes to the channel, byte i (from 0) being (v >> 8i) mod 256; 0x0102 gives
\* [2, 1], 0x01020304 gives [4, 3, 2, 1], u128::MAX gives sixteen 0xFF.
C2_ByteOrder ==
    [][(last'.kind = "write" /\ last'.res = "Ok")
        => /\ last'.W \in WriteWidths
           /\ Len(last'.io) = NBytes(last'.W)
           /\ chan' = chan \o last'.io
           /\ \A i \in 0..(NBytes(last'.W) - 1) :
                 last'.io[i + 1] = ByteAt(last'.arg, i)
           /\ (last'.W = 16 /\ last'.arg = <<258>>) => last'.io = <<2, 1>>
           /\ (last'.W = 32 /\ last'.arg = <<772, 258>>) => last'.io = <<4, 3, 2, 1>>
           /\ (last'.W = 128 /\ last'.arg = [k \in 1..8 |-> 65535])
                 => last'.io = [i \in 1..16 |-> 255]]_vars

C2_Witness ==
    /\ last.kind = "write" /\ last.W = 128 /\ last.res = "Ok"
    /\ last.arg = <<3856, 3342, 2828, 2314, 1800, 1286, 772, 258>>
    /\ last.io = <<16, 15, 14, 13, 12, 11, 10, 9, 8, 7, 6, 5, 4, 3, 2, 1>>
    /\ chan = last.io

\* C3: a successful read_uW_le consumes exactly the next W/8 bytes of the
\* channel, leaves every later byte in place, and returns the little-endian
\* value of the bytes consumed; from exactly 4 bytes a 32-bit read leaves none.
C3_ExactConsumption ==
    [][(last'.kind = "read" /\ last'.res = "Ok")
        => /\ last'.W \in ReadWidths
           /\ Len(chan) >= NBytes(last'.W)
           /\ last'.io = SubSeq(chan, 1, NBytes(last'.W))
           /\ chan' = SubSeq(chan, NBytes(last'.W) + 1, Len(chan))
           /\ last'.val = LeValue(last'.W, last'.io)
           /\ (last'.W = 32 /\ Len(chan) = 4) => chan' = <<>>]_vars

C3_Witness ==
    /\ last.kind = "read" /\ last.W = 32 /\ last.res = "Ok"
    /\ last.val = <<772, 258>>
    /\ Len(chan) = 8

\* C4: a read_uW_le on a channel holding fewer than W/8 bytes (none included)
\* fails with UnexpectedEof, which is none of the channel's own faults, and a
\* failed read returns no value.
C4_ShortInput ==
    [][last'.kind = "read"
        => /\ (Len(chan) < NBytes(last'.W) /\ NoFault(last'.trace))
                 => last'.res = "UnexpectedEof"
           /\ last'.res = "UnexpectedEof"
                 => (Len(chan) < NBytes(last'.W) /\ last'.res \notin Faults)
           /\ last'.res # "Ok" => last'.val = NoValue]_vars

C4_Witness ==
    /\ last.kind = "read" /\ last.W = 32 /\ last.res = "UnexpectedEof"
    /\ Len(last.io) = 3
    /\ last.val = NoValue

\* C5: after successful writes of mixed widths the channel holds the
\* concatenation of their encodings in issue order, and reading back with the
\* same widths returns the values in that order, each read taking exactly its
\* own W/8 bytes and nothing of the next integer.
C5_Sequence ==
    /\ clean => chan = Encoded(inflight)
    /\ (last.kind = "read" /\ last.depth > 0 /\ last.exp.W = last.W
            /\ NoFault(last.trace))
        => /\ last.res = "Ok"
           /\ last.val = last.exp.v
           /\ Len(last.io) = NBytes(last.W)
           /\ clean
           /\ Len(inflight) = last.depth - 1

C5_Witness ==
    /\ last.kind = "read" /\ last.W = 16 /\ last.depth = 3 /\ last.res = "Ok"
    /\ last.val = <<32768>>
    /\ inflight = <<[W |-> 32, v |-> <<772, 258>>],
                    [W |-> 64, v |-> <<1800, 1286, 772, 258>>]>>

\* The script a blocking channel follows to behave as the suspending channel
\* did: the same step results, Interrupted where the other was Pending.
Blocking(trace) ==
    [i \in 1..Len(trace) |->
        IF IsPending(trace[i]) THEN Err("Interrupted")
        ELSE IF trace[i].ok THEN Ok(trace[i].n) ELSE Err(trace[i].e)]

C7_Forwarding ==
    call.n = 1
    => /\ Len(call.delegated) = 1
       /\ call.delegated[1] = as_ref(call.password)
       /\ opts = FileOptions_with_deprecated_encryption(call.self, call.delegated[1])
       /\ opts.encrypt_with = [scheme |-> "ZipCrypto", password |-> as_ref(call.password)]
       /\ opts.compression_method = call.self.compression_method
       /\ opts.large_file = call.self.large_file

C7_Witness ==
    /\ call.n = 1 /\ call.password = <<>>
    /\ call.self.encrypt_with.scheme = "ZipCrypto"
    /\ call.self.encrypt_with.password = <<115, 195, 169>>
    /\ opts.encrypt_with = [scheme |-> "ZipCrypto", password |-> <<>>]

\* C8: write_uW_le makes one write_all call; it returns Ok only with all W/8
\* bytes emitted and no refusal by the channel, and when it fails it returns
\* the error of the channel's refusing step as it is, with no step after it.
C8_WriteFailure ==
    last.kind = "write"
    => LET t == last.trace
           n == Len(t)
       IN /\ last.calls = 1
          /\ last.res = "Ok" => (Len(last.io) = NBytes(last.W) /\ ~Refused(t))
          /\ last.res # "Ok"
                => /\ n > 0
                   /\ Len(last.io) < NBytes(last.W)
                   /\ \/ IsFault(t[n]) /\ last.res = t[n].e
                      \/ IsZero(t[n]) /\ last.res = "WriteZero"
                   /\ ~Refused(SubSeq(t, 1, n - 1))

C8_Witness ==
    /\ last.kind = "write" /\ last.W = 32 /\ last.res = "TimedOut"
    /\ last.io = <<>>

C10_NeverMidInteger ==
    fut.pc = "pending" => (Len(fut.io) = 0 \/ Len(fut.io) = NBytes(fut.W))

\* C10 amended: a suspending operation makes exactly one write_all /
\* read_exact call and is suspended only inside it, at a step where the
\* channel returned Pending, with exactly the bytes transferred so far moved
\* (possibly some but not all of the W/8).
C10_SingleCall ==
    /\ last.mode = "suspending" => last.calls = 1
    /\ fut.pc = "created" => (fut.calls = 0 /\ chan = fut.pre)
    /\ fut.pc = "pending"
        => /\ fut.calls = 1
           /\ IsPending(fut.trace[Len(fut.trace)])
           /\ Len(fut.io) < NBytes(fut.W)
           /\ IF fut.kind = "write"
              THEN /\ chan = fut.pre \o fut.io
                   /\ fut.io \o fut.buf = to_le_bytes(fut.W, fut.arg)
              ELSE fut.pre = fut.io \o chan

C10_Witness ==
    /\ fut.pc = "pending" /\ fut.kind = "write" /\ fut.W = 32
    /\ Len(fut.io) = 1
    /\ fut.calls = 1

====
